---- MODULE Spec2Model ----
(***************************************************************************)
(* The query component of uriparse-rs (src/src/query.rs): the validating   *)
(* scanner parse_query, the strict entry point Query::try_from, the        *)
(* in-place Query::normalize, and the percent-encoding-transparent         *)
(* equality and hash of Query.  Bytes are natural numbers 0..255, byte     *)
(* strings are sequences of bytes, an Option<u8> is a sequence of length   *)
(* at most one.  Indices named as in the source are 0-based; the byte the  *)
(* source calls bytes[i] is bytes[i + 1] here.                             *)
(***************************************************************************)
EXTENDS Integers, Sequences, FiniteSets, TLC

\* ------------------------------------------------------------------ bounds

\* An input of the parser is a body of at most MaxLen bytes of Alphabet
\* followed by at most MaxPad bytes 'D'.
MaxLen == 5
MaxPad == 3
\* The same for the inputs the two queries compared in SpecEq are parsed from.
MaxEqLen == 3
\* Most calls of normalize on one Query.
MaxCalls == 2

\* The bytes inputs are drawn from: '#', '%', '4', '<', 'D', 'd'.
Alphabet == {35, 37, 52, 60, 68, 100}

\* ------------------------------------------------------------- byte tables

PERCENT == 37
HASH == 35

None == << >>
Some(byte) == << byte >>

\* bytes.get(index) of a slice: the byte at a 0-based index, if there is one.
Get(bytes, index) ==
    IF index >= 0 /\ index < Len(bytes) THEN Some(bytes[index + 1]) ELSE None

\* QUERY_CHAR_MAP[byte]: the byte itself for a query character, 0 otherwise.
QUERY_CHAR_MAP(byte) ==
    IF \/ byte \in {33, 36, 61, 63, 95, 126}
       \/ (byte >= 37 /\ byte <= 59)
       \/ (byte >= 64 /\ byte <= 90)
       \/ (byte >= 97 /\ byte <= 122)
    THEN byte
    ELSE 0

\* UNRESERVED_CHAR_MAP[byte]: ALPHA, DIGIT, '-', '.', '_', '~'.
UNRESERVED_CHAR_MAP(byte) ==
    IF \/ (byte >= 65 /\ byte <= 90)
       \/ (byte >= 97 /\ byte <= 122)
       \/ (byte >= 48 /\ byte <= 57)
       \/ byte \in {45, 46, 95, 126}
    THEN byte
    ELSE 0

\* u8::to_ascii_uppercase.
to_ascii_uppercase(byte) ==
    IF byte >= 97 /\ byte <= 122 THEN byte - 32 ELSE byte

\* One hex digit: its value and whether it is in canonical (upper) case.
hex_digit_to_decimal(digit) ==
    IF digit >= 65 /\ digit <= 70
    THEN [ok |-> TRUE, value |-> digit - 55, uppercase |-> TRUE]
    ELSE IF digit >= 97 /\ digit <= 102
    THEN [ok |-> TRUE, value |-> digit - 87, uppercase |-> FALSE]
    ELSE IF digit >= 48 /\ digit <= 57
    THEN [ok |-> TRUE, value |-> digit - 48, uppercase |-> TRUE]
    ELSE [ok |-> FALSE, value |-> 0, uppercase |-> FALSE]

\* get_percent_encoded_value(first_digit, second_digit): the decoded byte and
\* whether both digits are upper case, or a failure when a digit is missing
\* or is no hex digit.
get_percent_encoded_value(first_digit, second_digit) ==
    IF first_digit = None \/ second_digit = None
    THEN [ok |-> FALSE, value |-> 0, uppercase |-> FALSE]
    ELSE LET f == hex_digit_to_decimal(first_digit[1])
             s == hex_digit_to_decimal(second_digit[1])
         IN  IF f.ok /\ s.ok
             THEN [ok |-> TRUE,
                   value |-> (f.value * 16 + s.value) % 256,
                   uppercase |-> f.uppercase /\ s.uppercase]
             ELSE [ok |-> FALSE, value |-> 0, uppercase |-> FALSE]

\* ------------------------------------------------------------- parse_query

\* The arm `0 if byte == b'#' => break` / `0 => return Err(InvalidCharacter)`.
InvalidArm(byte) ==
    IF byte = HASH THEN "break" ELSE "InvalidCharacter"

\* The flag after a well-formed triplet.
TripletFlag(normalized, hex_value, uppercase) ==
    IF ~uppercase \/ UNRESERVED_CHAR_MAP(hex_value) # 0 THEN FALSE ELSE normalized

\* end_index after a well-formed triplet: the arm does not touch it.
TripletEndIndex(end_index) == end_index

\* end_index after a literal query character.
LiteralEndIndex(end_index) == end_index + 1

ScanOk(end_index, normalized) ==
    [err |-> "none", end_index |-> end_index, normalized |-> normalized]

ScanErr(kind) ==
    [err |-> kind, end_index |-> 0, normalized |-> FALSE]

\* The while-let loop of parse_query from iterator position pos.
RECURSIVE Scan(_, _, _, _)
Scan(value, pos, end_index, normalized) ==
    IF pos >= Len(value)
    THEN ScanOk(end_index, normalized)
    ELSE LET byte == value[pos + 1] IN
         IF QUERY_CHAR_MAP(byte) = 0
         THEN IF InvalidArm(byte) = "break"
              THEN ScanOk(end_index, normalized)
              ELSE ScanErr(InvalidArm(byte))
         ELSE IF QUERY_CHAR_MAP(byte) = PERCENT
         THEN LET d == get_percent_encoded_value(Get(value, pos + 1),
                                                 Get(value, pos + 2))
              IN  IF d.ok
                  THEN Scan(value, pos + 3, TripletEndIndex(end_index),
                            TripletFlag(normalized, d.value, d.uppercase))
                  ELSE ScanErr("InvalidPercentEncoding")
         ELSE Scan(value, pos + 1, LiteralEndIndex(end_index), normalized)

Failure(kind) ==
    [ok |-> FALSE, err |-> kind, query |-> << >>, normalized |-> FALSE,
     rest |-> << >>]

\* value.split_at(end_index) and the Query built from the first half.
SplitResult(value, end_index, normalized) ==
    [ok |-> TRUE, err |-> "none",
     query |-> SubSeq(value, 1, end_index),
     normalized |-> normalized,
     rest |-> SubSeq(value, end_index + 1, Len(value))]

parse_query(value) ==
    LET s == Scan(value, 0, 0, TRUE)
    IN  IF s.err # "none"
        THEN Failure(s.err)
        ELSE SplitResult(value, s.end_index, s.normalized)

\* TryFrom<&[u8]> for Query.
try_from(value) ==
    LET p == parse_query(value)
    IN  IF ~p.ok THEN p
        ELSE IF p.rest = << >> THEN p
        ELSE Failure("ExpectedEOF")

\* --------------------------------------------------------------- normalize

\* What the loop writes for a literal byte.
LiteralOutput(byte) == << byte >>

\* What the loop writes for a triplet that decodes to hex_value.
TripletOutput_NoUpper(hex_value, first_digit, second_digit) ==
    IF UNRESERVED_CHAR_MAP(hex_value) # 0
    THEN << hex_value >>
    ELSE << PERCENT, to_ascii_uppercase(first_digit), second_digit >>

TripletOutput_Toggle(hex_value, first_digit, second_digit) ==
    IF UNRESERVED_CHAR_MAP(hex_value) # 0
    THEN << hex_value >>
    ELSE << PERCENT,
            IF first_digit >= 97 THEN first_digit - 32
            ELSE IF first_digit >= 65 THEN first_digit + 32 ELSE first_digit,
            IF second_digit >= 97 THEN second_digit - 32
            ELSE IF second_digit >= 65 THEN second_digit + 32 ELSE second_digit >>

TripletOutput_Digit(hex_value, first_digit, second_digit) ==
    IF UNRESERVED_CHAR_MAP(hex_value) # 0
    THEN << first_digit >>
    ELSE << PERCENT, to_ascii_uppercase(first_digit),
            to_ascii_uppercase(second_digit) >>

TripletOutput(hex_value, first_digit, second_digit) ==
    IF UNRESERVED_CHAR_MAP(hex_value) # 0
    THEN << hex_value >>
    ELSE << PERCENT, to_ascii_uppercase(first_digit),
            to_ascii_uppercase(second_digit) >>

\* read_index after the two digits of a triplet.
AfterTriplet_Stay(read_index) == read_index

AfterTriplet(read_index) == read_index + 2

\* bytes[write_index..] = out, byte by byte.
WriteAt(bytes, write_index, out) ==
    [i \in 1..Len(bytes) |->
        IF i > write_index /\ i <= write_index + Len(out)
        THEN out[i - write_index]
        ELSE bytes[i]]

LoopState(bytes, read_index, write_index, panicked) ==
    [bytes |-> bytes, read_index |-> read_index, write_index |-> write_index,
     panicked |-> panicked]

\* A write of out at write_index: an index past the end of the buffer panics.
Store(bytes, read_index, write_index, out) ==
    IF write_index + Len(out) > Len(bytes)
    THEN LoopState(bytes, read_index, write_index, TRUE)
    ELSE LoopState(WriteAt(bytes, write_index, out), read_index,
                   write_index + Len(out), FALSE)

\* One iteration of the while loop of normalize (read_index < bytes.len()).
LoopBody(bytes, read_index, write_index) ==
    LET byte == bytes[read_index + 1]
        r1 == read_index + 1
    IN  IF byte = PERCENT
        THEN LET first_digit == Get(bytes, r1)
                 second_digit == Get(bytes, r1 + 1)
                 d == get_percent_encoded_value(first_digit, second_digit)
             IN  IF ~d.ok
                 THEN LoopState(bytes, r1, write_index, TRUE)
                 ELSE Store(bytes, AfterTriplet(r1), write_index,
                            TripletOutput(d.value, first_digit[1],
                                          second_digit[1]))
        ELSE Store(bytes, r1, write_index, LiteralOutput(byte))

\* bytes.truncate(write_index).
Truncate(bytes, write_index) ==
    SubSeq(bytes, 1, IF write_index < Len(bytes) THEN write_index ELSE Len(bytes))

\* The loop of normalize run to its end, then the truncation.
RECURSIVE RunLoop(_, _, _)
RunLoop(bytes, read_index, write_index) ==
    IF read_index >= Len(bytes)
    THEN [bytes |-> Truncate(bytes, write_index), panicked |-> FALSE]
    ELSE LET s == LoopBody(bytes, read_index, write_index)
         IN  IF s.panicked
             THEN [bytes |-> s.bytes, panicked |-> TRUE]
             ELSE RunLoop(s.bytes, s.read_index, s.write_index)

\* Query::normalize as a whole, on a Query [query, normalized].
normalize(q) ==
    IF q.normalized
    THEN [query |-> q.query, normalized |-> q.normalized, panicked |-> FALSE]
    ELSE LET r == RunLoop(q.query, 0, 0)
         IN  [query |-> r.bytes, normalized |-> q.normalized,
              panicked |-> r.panicked]

\* ------------------------------------------------------- equality and hash

\* The logical unit of bytes that starts at the 0-based position pos: a
\* triplet decoded to one byte, or a literal byte as it is.
NextUnit(bytes, pos) ==
    IF bytes[pos + 1] = PERCENT
    THEN LET d == get_percent_encoded_value(Get(bytes, pos + 1),
                                            Get(bytes, pos + 2))
         IN  [ok |-> d.ok, value |-> d.value, next |-> pos + 3]
    ELSE [ok |-> TRUE, value |-> bytes[pos + 1], next |-> pos + 1]

\* percent_encoded_equality(left, right, true): both sides walked in
\* lockstep, one logical unit from each side per step.
RECURSIVE EqualityFrom(_, _, _, _)
EqualityFrom(left, lpos, right, rpos) ==
    IF lpos >= Len(left) /\ rpos >= Len(right) THEN TRUE
    ELSE IF lpos >= Len(left) \/ rpos >= Len(right) THEN FALSE
    ELSE LET l == NextUnit(left, lpos)
             r == NextUnit(right, rpos)
         IN  IF ~l.ok \/ ~r.ok \/ l.value # r.value
             THEN FALSE
             ELSE EqualityFrom(left, l.next, right, r.next)

percent_encoded_equality(left, right) == EqualityFrom(left, 0, right, 0)

\* percent_encoded_hash(value, state, true): the bytes fed to the hasher, one
\* resolved byte per logical unit.
RECURSIVE HashFrom(_, _, _)
HashFrom(bytes, pos, fed) ==
    IF pos >= Len(bytes) THEN fed
    ELSE LET u == NextUnit(bytes, pos)
         IN  HashFrom(bytes, u.next, Append(fed, u.value))

percent_encoded_hash(bytes) == HashFrom(bytes, 0, << >>)

\* ------------------------------------------------------------------- state

VARIABLES
    input,          \* the bytes handed to the parser
    mode,           \* "none", "prefix" (parse_query) or "strict" (try_from)
    pc,             \* "start", "failed", "idle", "loop", "panicked"
    err,            \* the InvalidQuery returned, or "none"
    query,          \* Query.query: the stored bytes
    normalized,     \* Query.normalized
    owned,          \* whether the Cow holds an owned String
    rest,           \* the remainder parse_query returned
    read_index,     \* normalize: read_index
    write_index,    \* normalize: write_index
    calls,          \* calls of normalize that have returned
    eq_pc,          \* "off", "fresh", "compared", "normalized", "recompared"
    a,              \* first Query compared: [query, normalized]
    b,              \* second Query compared
    na,             \* a clone of a, normalized
    nb,             \* a clone of b, normalized
    eq_first,       \* a == b
    eq_second,      \* na == nb
    hash_a,         \* the bytes a fed to the hasher
    hash_b          \* the bytes b fed to the hasher

parse_vars == << input, mode, pc, err, query, normalized, owned, rest,
                 read_index, write_index, calls >>
eq_vars == << eq_pc, a, b, na, nb, eq_first, eq_second, hash_a, hash_b >>
vars == << input, mode, pc, err, query, normalized, owned, rest,
           read_index, write_index, calls,
           eq_pc, a, b, na, nb, eq_first, eq_second, hash_a, hash_b >>

SeqsUpTo(S, n) == UNION { [1..k -> S] : k \in 0..n }

\* k bytes 'D'.
Padding(k) == [i \in 1..k |-> 68]

\* The inputs: a body of at most n bytes, then at most MaxPad bytes 'D'.
Inputs(n) ==
    { body \o Padding(k) : body \in SeqsUpTo(Alphabet, n), k \in 0..MaxPad }

IsHexDigit(byte) == hex_digit_to_decimal(byte).ok

\* Every byte is a query character and every '%' is followed by two hex digits.
WellFormed(bytes) ==
    \A i \in 1..Len(bytes) :
        /\ QUERY_CHAR_MAP(bytes[i]) # 0
        /\ bytes[i] = PERCENT =>
              /\ i + 2 <= Len(bytes)
              /\ IsHexDigit(bytes[i + 1])
              /\ IsHexDigit(bytes[i + 2])

NoQuery == [query |-> << >>, normalized |-> TRUE]

\* The Query values compared in SpecEq: what parse_query returns on the
\* inputs, where the content it stored is well-formed.
Queries ==
    { q \in { [query |-> parse_query(i).query,
               normalized |-> parse_query(i).normalized] :
                 i \in { j \in Inputs(MaxEqLen) : parse_query(j).ok } } :
        WellFormed(q.query) }

ParseIdle ==
    /\ mode = "none" /\ pc = "start" /\ err = "none"
    /\ query = << >> /\ normalized = TRUE /\ owned = FALSE /\ rest = << >>
    /\ read_index = 0 /\ write_index = 0 /\ calls = 0

EqIdle ==
    /\ eq_pc = "off" /\ a = NoQuery /\ b = NoQuery
    /\ na = NoQuery /\ nb = NoQuery
    /\ eq_first = FALSE /\ eq_second = FALSE
    /\ hash_a = << >> /\ hash_b = << >>

Init ==
    /\ input \in Inputs(MaxLen)
    /\ ParseIdle
    /\ EqIdle

\* The outcome of a parse stored in the state.
Deliver(m, p) ==
    /\ mode' = m
    /\ pc' = IF p.ok THEN "idle" ELSE "failed"
    /\ err' = p.err
    /\ query' = p.query
    /\ normalized' = p.normalized
    /\ rest' = p.rest
    /\ UNCHANGED << input, owned, read_index, write_index, calls >>
    /\ UNCHANGED eq_vars

\* parse_query(input).
ParsePrefix ==
    /\ pc = "start"
    /\ Deliver("prefix", parse_query(input))

\* Query::try_from(input).
TryFrom ==
    /\ pc = "start"
    /\ Deliver("strict", try_from(input))

\* Query::into_owned.
IntoOwned ==
    /\ pc = "idle"
    /\ ~owned
    /\ owned' = TRUE
    /\ UNCHANGED << input, mode, pc, err, query, normalized, rest,
                    read_index, write_index, calls >>
    /\ UNCHANGED eq_vars

\* Query::normalize on a Query whose flag is set: the early return.
NormalizeReturnEarly ==
    /\ pc = "idle"
    /\ calls < MaxCalls
    /\ normalized
    /\ calls' = calls + 1
    /\ UNCHANGED << input, mode, pc, err, query, normalized, owned, rest,
                    read_index, write_index >>
    /\ UNCHANGED eq_vars

\* Query::normalize up to the loop: to_mut() makes the Cow owned.
NormalizeEnter ==
    /\ pc = "idle"
    /\ calls < MaxCalls
    /\ ~normalized
    /\ pc' = "loop"
    /\ owned' = TRUE
    /\ read_index' = 0
    /\ write_index' = 0
    /\ UNCHANGED << input, mode, err, query, normalized, rest, calls >>
    /\ UNCHANGED eq_vars

\* One iteration of the loop of normalize.
NormalizeLoop ==
    /\ pc = "loop"
    /\ read_index < Len(query)
    /\ LET s == LoopBody(query, read_index, write_index)
       IN  /\ pc' = IF s.panicked THEN "panicked" ELSE "loop"
           /\ query' = s.bytes
           /\ read_index' = s.read_index
           /\ write_index' = s.write_index
    /\ UNCHANGED << input, mode, err, normalized, owned, rest, calls >>
    /\ UNCHANGED eq_vars

\* The loop condition fails: truncate and return.
NormalizeExit ==
    /\ pc = "loop"
    /\ read_index >= Len(query)
    /\ query' = Truncate(query, write_index)
    /\ pc' = "idle"
    /\ calls' = calls + 1
    /\ UNCHANGED << input, mode, err, normalized, owned, rest,
                    read_index, write_index >>
    /\ UNCHANGED eq_vars

Next ==
    \/ ParsePrefix
    \/ TryFrom
    \/ IntoOwned
    \/ NormalizeReturnEarly
    \/ NormalizeEnter
    \/ NormalizeLoop
    \/ NormalizeExit

Spec == Init /\ [][Next]_vars

\* ------------------------------------------- two queries, compared and hashed

InitEq ==
    /\ input = << >>
    /\ ParseIdle
    /\ eq_pc = "fresh"
    /\ \E qs \in { Queries } : a \in qs /\ b \in qs
    /\ na = NoQuery /\ nb = NoQuery
    /\ eq_first = FALSE /\ eq_second = FALSE
    /\ hash_a = << >> /\ hash_b = << >>

\* a == b, and both hashed.
Compare ==
    /\ eq_pc = "fresh"
    /\ eq_first' = percent_encoded_equality(a.query, b.query)
    /\ hash_a' = percent_encoded_hash(a.query)
    /\ hash_b' = percent_encoded_hash(b.query)
    /\ eq_pc' = "compared"
    /\ UNCHANGED << a, b, na, nb, eq_second >>
    /\ UNCHANGED parse_vars

\* na = a.clone(); na.normalize(); the same for nb.
NormalizeBoth ==
    /\ eq_pc = "compared"
    /\ LET ra == normalize(a)
           rb == normalize(b)
       IN  /\ na' = [query |-> ra.query, normalized |-> ra.normalized]
           /\ nb' = [query |-> rb.query, normalized |-> rb.normalized]
           /\ eq_pc' = IF ra.panicked \/ rb.panicked THEN "panicked"
                       ELSE "normalized"
    /\ UNCHANGED << a, b, eq_first, eq_second, hash_a, hash_b >>
    /\ UNCHANGED parse_vars

\* na == nb.
CompareAgain ==
    /\ eq_pc = "normalized"
    /\ eq_second' = percent_encoded_equality(na.query, nb.query)
    /\ eq_pc' = "recompared"
    /\ UNCHANGED << a, b, na, nb, eq_first, hash_a, hash_b >>
    /\ UNCHANGED parse_vars

NextEq ==
    \/ Compare
    \/ NormalizeBoth
    \/ CompareAgain

SpecEq == InitEq /\ [][NextEq]_vars

\* ------------------------------------------------- reference definitions
\* RFC 3986 character classes and the canonical form, stated on their own.

RefHexDigits == (48..57) \cup (65..70) \cup (97..102)

RefUnreserved == (65..90) \cup (97..122) \cup (48..57) \cup {45, 46, 95, 126}

\* unreserved, sub-delims, ':', '@', '/', '?'.
RefLiterals ==
    RefUnreserved \cup {33, 36, 38, 39, 40, 41, 42, 43, 44, 59, 61}
                  \cup {58, 64, 47, 63}

RefHexValue(d) ==
    IF d \in 48..57 THEN d - 48 ELSE IF d \in 65..70 THEN d - 55 ELSE d - 87

RefDecode(d1, d2) == RefHexValue(d1) * 16 + RefHexValue(d2)

RefUpper(d) == IF d \in 97..102 THEN d - 32 ELSE d

\* s starts with a percent triplet.
RefTripletAt(s) ==
    /\ Len(s) >= 3
    /\ s[1] = PERCENT
    /\ s[2] \in RefHexDigits
    /\ s[3] \in RefHexDigits

\* Only literal query characters and well-formed triplets; no '#'.
RECURSIVE RefValid(_)
RefValid(s) ==
    IF s = << >> THEN TRUE
    ELSE IF s[1] = PERCENT
    THEN RefTripletAt(s) /\ RefValid(SubSeq(s, 4, Len(s)))
    ELSE s[1] \in RefLiterals /\ RefValid(Tail(s))

\* The canonical form of valid content.
RECURSIVE RefCanonical(_)
RefCanonical(s) ==
    IF s = << >> THEN << >>
    ELSE IF s[1] = PERCENT
    THEN (IF RefDecode(s[2], s[3]) \in RefUnreserved
          THEN << RefDecode(s[2], s[3]) >>
          ELSE << PERCENT, RefUpper(s[2]), RefUpper(s[3]) >>)
         \o RefCanonical(SubSeq(s, 4, Len(s)))
    ELSE << s[1] >> \o RefCanonical(Tail(s))

\* The logical units of valid content.
RECURSIVE RefUnits(_)
RefUnits(s) ==
    IF s = << >> THEN << >>
    ELSE IF s[1] = PERCENT
    THEN << RefDecode(s[2], s[3]) >> \o RefUnits(SubSeq(s, 4, Len(s)))
    ELSE << s[1] >> \o RefUnits(Tail(s))

\* 1-based position of the first '#' of s, Len(s) + 1 if there is none.
FirstHash(s) ==
    IF \E i \in 1..Len(s) : s[i] = HASH
    THEN CHOOSE i \in 1..Len(s) :
            s[i] = HASH /\ \A j \in 1..(i - 1) : s[j] # HASH
    ELSE Len(s) + 1

BeforeHash(s) == SubSeq(s, 1, FirstHash(s) - 1)
FromHash(s) == SubSeq(s, FirstHash(s), Len(s))

\* The error the first offending position of s calls for, scanning left to
\* right up to the first '#'.
RECURSIVE FirstOffence(_)
FirstOffence(s) ==
    IF s = << >> THEN "none"
    ELSE IF s[1] = HASH THEN "none"
    ELSE IF s[1] = PERCENT
    THEN (IF RefTripletAt(s) THEN FirstOffence(SubSeq(s, 4, Len(s)))
          ELSE "InvalidPercentEncoding")
    ELSE IF s[1] \in RefLiterals THEN FirstOffence(Tail(s))
    ELSE "InvalidCharacter"

\* The content the parser stored: the input without the remainder.
OrigContent == SubSeq(input, 1, Len(input) - Len(rest))

\* A Query has just been returned by the parser.
Parsed == pc = "idle" /\ calls = 0

\* -------------------------------------------------------------- properties

\* C1: a strict parse (try_from) of an input made only of query characters
\* and well-formed percent triplets, without '#', succeeds and stores exactly
\* the input.
C1_RoundTrip ==
    (mode = "strict" /\ RefValid(input) /\ calls = 0 /\ pc # "loop")
        => (pc = "idle" /\ err = "none" /\ query = input)

\* C2: after a successful parse_query the content is the input before its
\* first '#' and the remainder is the input from that '#' on.
C2_FragmentBoundary ==
    (mode = "prefix" /\ Parsed)
        => (/\ query = BeforeHash(input)
            /\ rest = FromHash(input)
            /\ (rest = << >> \/ rest[1] = HASH))

\* C3: for valid queries a and b, a == b exactly when their logical units
\* agree, a == b exactly when normalize(a) == normalize(b), normalize keeps
\* the logical units of a query, and a == b implies that a and b feed the
\* same bytes to the hasher.
C3_EquivalenceLaw ==
    /\ eq_pc \in {"compared", "normalized", "recompared"} =>
          /\ eq_first = (RefUnits(a.query) = RefUnits(b.query))
          /\ eq_first => hash_a = hash_b
    /\ eq_pc \in {"normalized", "recompared"} =>
          /\ percent_encoded_equality(a.query, na.query)
          /\ percent_encoded_equality(b.query, nb.query)
    /\ eq_pc = "recompared" => eq_second = eq_first

\* C3 witness: two queries with different bytes compare equal, before and
\* after a normalize that rewrote the first.
C3_Witness ==
    /\ eq_pc = "recompared"
    /\ eq_first /\ eq_second
    /\ a.query # b.query
    /\ na.query # a.query
    /\ Len(a.query) > Len(b.query)

\* C4: one normalize of a Query with well-formed content and a clear flag
\* leaves the canonical form of that content: literals kept, triplets of
\* unreserved bytes decoded, other triplets kept with upper-case digits.
C4_NormalizeCorrect ==
    (pc = "idle" /\ calls = 1 /\ ~normalized /\ RefValid(OrigContent))
        => query = RefCanonical(OrigContent)

\* C4 witness: a content with a literal, a triplet that is decoded and bytes
\* after it has been normalized.
C4_Witness ==
    /\ pc = "idle" /\ calls = 1 /\ ~normalized
    /\ RefValid(OrigContent)
    /\ Len(OrigContent) >= 5
    /\ Len(query) < Len(OrigContent)
    /\ OrigContent[1] # PERCENT

\* C5: once normalize has returned, is_normalized() is true.
C5_FlagSet ==
    (pc = "idle" /\ calls >= 1) => normalized

\* C6: once one call of normalize has returned, a further call leaves the
\* content as it is, at every step and on either path.
C6_Idempotent ==
    [][calls >= 1 => query' = query]_vars

\* C6 witness: the loop has run twice on a content the first run rewrote.
C6_Witness ==
    /\ pc = "idle" /\ calls = 2 /\ ~normalized
    /\ RefValid(OrigContent)
    /\ query # OrigContent

\* C7: the flag of a Query the parser returns is set exactly when the
\* content is in canonical form.
C7_FlagAccurate ==
    Parsed =>
        (normalized <=> (RefValid(query) /\ RefCanonical(query) = query))

\* C8: the content of a Query the parser returns has no malformed or
\* truncated escape, and normalize never fails.
C8_NormalizeTotal ==
    /\ pc # "panicked"
    /\ Parsed => RefValid(query)

\* C9: the error of a parse is the one the first offending position calls
\* for; ExpectedEOF comes only from try_from, after a scan that succeeded
\* and left bytes of the input unconsumed (a '#' and what follows it); a
\* failure yields no Query.
C9_ErrorTaxonomy ==
    mode # "none" =>
        /\ (err = "InvalidCharacter") <=>
              (FirstOffence(input) = "InvalidCharacter")
        /\ (err = "InvalidPercentEncoding") <=>
              (FirstOffence(input) = "InvalidPercentEncoding")
        /\ (err = "ExpectedEOF") =>
              /\ mode = "strict"
              /\ FirstOffence(input) = "none"
              /\ FromHash(input) # << >>
        /\ (err # "none") <=> (pc = "failed")
        /\ pc = "failed" => (query = << >> /\ rest = << >>)

\* C10: while normalize runs on well-formed content, write_index <=
\* read_index <= length, no unread byte is overwritten, and the content it
\* leaves is no longer than the one it found.
C10_Compaction ==
    /\ [](RefValid(OrigContent) =>
            /\ pc = "loop" =>
                  (write_index <= read_index /\ read_index <= Len(query))
            /\ pc = "idle" => Len(query) <= Len(OrigContent))
    /\ [][(RefValid(OrigContent) /\ pc = "loop" /\ pc' = "loop") =>
            /\ Len(query') = Len(query)
            /\ \A i \in 1..Len(query) :
                  i > read_index' => query'[i] = query[i]]_vars

\* C10 witness: the loop has compacted a triplet and unread bytes remain.
C10_Witness ==
    /\ pc = "loop"
    /\ RefValid(OrigContent)
    /\ write_index < read_index
    /\ read_index < Len(query)

====
